---- MODULE Spec2Model ----
(***************************************************************************)
(* InsightTrack sales dashboard (src/app.py): one Streamlit script that is *)
(* executed top to bottom on every user interaction.  A run generates the  *)
(* order dataset, reads the sidebar widgets, filters, aggregates, draws    *)
(* the charts, exports the CSV and writes the insights.                    *)
(*                                                                         *)
(* Money is held in integer cents, ProfitMargin in hundredths of a percent *)
(* and a date as the number of days since 2024-01-01.                      *)
(***************************************************************************)
EXTENDS Integers, Sequences, FiniteSets, TLC

VARIABLES
    pc,                  \* position of the script run
    str_hash,            \* hash("Mayuri2025") in the current Python process
    seed,                \* value last handed to np.random.seed (-1: never seeded)
    df,                  \* the base DataFrame, as last built by lines 27-45
    selected_regions, selected_categories, date_range,
    filtered_df,
    total_sales, total_profit, total_orders, avg_order_value,
    region_sales, category_sales, monthly_sales,
    csv_data,
    insights,
    fresh                \* TRUE until this process has generated its dataset

vars == <<pc, str_hash, seed, df, selected_regions, selected_categories,
          date_range, filtered_df, total_sales, total_profit, total_orders,
          avg_order_value, region_sales, category_sales, monthly_sales,
          csv_data, insights, fresh>>

----------------------------------------------------------------------------
(* Bounds of the model *)

\* str hashes a process can see: HashOf(0) .. HashOf(MaxHash)
MaxHash == 1
\* extra date-picker choices inside the dataset's range
MaxPick == 0

----------------------------------------------------------------------------
(* Program constants *)

regions == <<"North", "South", "East", "West">>
categories == <<"Electronics", "Furniture", "Clothing", "Sports">>
num_orders == 120
FirstOrderID == 3001
SeedModulus == 10000
\* pd.date_range(start="2024-01-01", periods=num_orders, freq="7D")
StartDay == 0
Freq == 7
\* np.random.uniform(50, 1000), in cents
MinPrice == 5000
MaxPrice == 100000
\* profit_map, in percent
profit_map == [Electronics |-> 12, Furniture |-> 20, Clothing |-> 35, Sports |-> 25]

BaseColumns == <<"OrderID", "Date", "Region", "Category", "Quantity",
                 "UnitPrice", "Sales", "Profit", "ProfitMargin">>

NoFrame == [columns |-> <<>>, rows |-> <<>>]

----------------------------------------------------------------------------
(* Arithmetic helpers *)

Abs(n) == IF n < 0 THEN -n ELSE n

\* round-half-to-even of n / d, for n >= 0 and d > 0 (np.round, Series.round)
RoundDiv(n, d) ==
    LET q == n \div d
        r == n % d
    IN  IF 2 * r < d THEN q
        ELSE IF 2 * r > d THEN q + 1
        ELSE IF q % 2 = 0 THEN q ELSE q + 1

\* the sum of s[lo..hi], by halves
RECURSIVE SumRange(_, _, _)
SumRange(s, lo, hi) ==
    IF lo > hi THEN 0
    ELSE IF lo = hi THEN s[lo]
    ELSE SumRange(s, lo, (lo + hi) \div 2) + SumRange(s, (lo + hi) \div 2 + 1, hi)

SumSeq(s) == SumRange(s, 1, Len(s))

----------------------------------------------------------------------------
(* The random source.  np.random.seed(s) fixes the whole stream of draws   *)
(* that follow; the Mersenne Twister itself is replaced by a small linear  *)
(* congruential generator, which keeps what the program relies on: the     *)
(* k-th draw is a function of the seed and of k alone.                     *)

RngModulus == 32749
RngMultiplier == 202
RngIncrement == 74

\* one step of the generator
RngNext(x) == (RngMultiplier * x + RngIncrement) % RngModulus

\* k steps at once: the step is x -> a*x + c, and so are k of them; <<a, c>>
\* of the k-fold step is found by squaring
RngCompose(f, g) == <<(f[1] * g[1]) % RngModulus, (f[1] * g[2] + f[2]) % RngModulus>>

RECURSIVE RngSteps(_)
RngSteps(k) ==
    IF k = 0 THEN <<1, 0>>
    ELSE LET half == RngSteps(k \div 2)
             twice == RngCompose(half, half)
         IN  IF k % 2 = 1 THEN RngCompose(twice, <<RngMultiplier, RngIncrement>>) ELSE twice

\* the k-th draw (k >= 1) after np.random.seed(s)
Draw(s, k) == (RngSteps(k)[1] * (s % RngModulus) + RngSteps(k)[2]) % RngModulus

\* the salted str hash of "Mayuri2025" for the h-th possible hash salt
HashOf(h) == 9973 * h - 5000
HashValues == { HashOf(h) : h \in 0..MaxHash }

\* line 18: hash("Mayuri2025") % 10000
SeedOf(h) == h % SeedModulus

\* np.random.choice(options, n): one draw per row
RandomChoice(options, draw) == options[1 + (draw % Len(options))]
\* np.random.randint(1, 6): 1..5
RandomQuantity(draw) == 1 + (draw % (6 - 1))
\* np.round(np.random.uniform(50, 1000), 2) in cents, on a grid of 25.00
RandomUnitPrice(draw) == MinPrice + 2500 * (draw % ((MaxPrice - MinPrice) \div 2500 + 1))
\* np.random.uniform(0.9, 1.1) in thousandths
RandomJitter(draw) == 900 + (draw % 201)

\* lines 40-45: the derived fields of one row
Derive(raw, jitter) ==
    LET Sales == raw.Quantity * raw.UnitPrice
        Profit == RoundDiv(((Sales * profit_map[raw.Category]) \div 100) * jitter, 1000)
        ProfitMargin == RoundDiv(Profit * 10000, Sales)
    IN  [OrderID |-> raw.OrderID, Date |-> raw.Date, Region |-> raw.Region,
         Category |-> raw.Category, Quantity |-> raw.Quantity,
         UnitPrice |-> raw.UnitPrice, Sales |-> Sales, Profit |-> Profit,
         ProfitMargin |-> ProfitMargin]

\* variant of OrderDate: freq="D" in place of "7D"
OrderDate_Daily(i) == StartDay + (i - 1)

\* line 26: pd.date_range(start, periods, freq="7D"), row i (1-based)
OrderDate(i) == StartDay + Freq * (i - 1)

\* lines 25-45: the DataFrame built from the stream seeded with s
GenerateData(s) ==
    LET n == num_orders
        \* the draws are taken column by column, n at a time, in source order
        Raw(i) == [OrderID |-> FirstOrderID + (i - 1),
                   Date |-> OrderDate(i),
                   Region |-> RandomChoice(regions, Draw(s, i)),
                   Category |-> RandomChoice(categories, Draw(s, n + i)),
                   Quantity |-> RandomQuantity(Draw(s, 2 * n + i)),
                   UnitPrice |-> RandomUnitPrice(Draw(s, 3 * n + i))]
    IN  [columns |-> BaseColumns,
         rows |-> [i \in 1..n |-> Derive(Raw(i), RandomJitter(Draw(s, 4 * n + i)))]]

----------------------------------------------------------------------------
(* Calendar: day numbers (0 = 2024-01-01) to year, month, day and back *)

IsLeap(y) == (y % 4 = 0 /\ y % 100 # 0) \/ y % 400 = 0

DaysInMonth(y, m) ==
    IF m = 2 THEN (IF IsLeap(y) THEN 29 ELSE 28)
    ELSE IF m \in {4, 6, 9, 11} THEN 30 ELSE 31

DaysInYear(y) == IF IsLeap(y) THEN 366 ELSE 365

RECURSIVE YMDFrom(_, _, _)
YMDFrom(y, m, rest) ==
    IF m = 1 /\ rest >= DaysInYear(y) THEN YMDFrom(y + 1, 1, rest - DaysInYear(y))
    ELSE IF rest < DaysInMonth(y, m) THEN <<y, m, rest + 1>>
    ELSE YMDFrom(y, m + 1, rest - DaysInMonth(y, m))

\* Timestamp.strftime("%Y-%m-%d"): the fields of the ISO date of a day >= 0
FormatDate(day) == YMDFrom(2024, 1, day)

RECURSIVE DaysBefore(_, _)
DaysBefore(y, m) ==
    IF y = 2024 /\ m = 1 THEN 0
    ELSE IF m = 1 THEN DaysBefore(y - 1, 12) + DaysInMonth(y - 1, 12)
    ELSE DaysBefore(y, m - 1) + DaysInMonth(y, m - 1)

\* pd.to_datetime of an ISO date
ParseDate(ymd) == DaysBefore(ymd[1], ymd[2]) + (ymd[3] - 1)

\* line 95: Date.dt.to_period("M").dt.to_timestamp(), the first day of the month
MonthStart(day) == day - (FormatDate(day)[3] - 1)

----------------------------------------------------------------------------
(* Sidebar widgets (lines 51-56) *)

Column(rows, col) == [i \in DOMAIN rows |-> rows[i][col]]

\* Series.unique(), as the set of the values that occur
Unique(frame, col) == { frame.rows[i][col] : i \in DOMAIN frame.rows }

\* Series.min() / Series.max() of a non-empty column
ColumnMin(frame, col) == CHOOSE v \in Unique(frame, col) : \A w \in Unique(frame, col) : v <= w
ColumnMax(frame, col) == CHOOSE v \in Unique(frame, col) : \A w \in Unique(frame, col) : v >= w

\* dates the user can click in the picker: the two defaults, a day that is
\* no order's date, and MaxPick order dates four weeks apart
DatePicks(frame) ==
    {ColumnMin(frame, "Date"), ColumnMax(frame, "Date"), ColumnMin(frame, "Date") + 3}
        \union { ColumnMin(frame, "Date") + 4 * Freq * k : k \in 1..MaxPick }

\* st.date_input with a two-date default returns a tuple of two dates, or of
\* one date while the user has picked only the first endpoint
DateInputValues(frame) ==
    { <<a>> : a \in DatePicks(frame) } \union (DatePicks(frame) \X DatePicks(frame))

----------------------------------------------------------------------------
(* Filter engine (lines 59-63) *)

\* variant of IsIn: an empty selection read as "no filter"
IsIn_EmptyMeansAll(v, values) == values = {} \/ v \in values

\* Series.isin(values)
IsIn(v, values) == v \in values

\* variant of Between: the right end excluded
Between_ExclusiveRight(v, left, right) == left <= v /\ v < right

\* Series.between(left, right), inclusive="both"
Between(v, left, right) == left <= v /\ v <= right

\* the boolean mask of lines 60-62, one entry per row of the frame
FilterMask(frame, sel_regions, sel_categories, left, right) ==
    [i \in DOMAIN frame.rows |->
        /\ IsIn(frame.rows[i].Region, sel_regions)
        /\ IsIn(frame.rows[i].Category, sel_categories)
        /\ Between(frame.rows[i].Date, left, right)]

TakeMasked(rows, mask) ==
    LET tagged == [i \in DOMAIN rows |-> [row |-> rows[i], keep |-> mask[i]]]
        Keep(t) == t.keep
        kept == SelectSeq(tagged, Keep)
    IN  [i \in DOMAIN kept |-> kept[i].row]

\* df[mask]: boolean indexing returns a new frame (a copy) with the rows
\* whose mask entry is True, in the frame's order
BooleanIndex(frame, mask) ==
    [columns |-> frame.columns, rows |-> TakeMasked(frame.rows, mask)]

----------------------------------------------------------------------------
(* Aggregator (lines 68-71, 85-96, 122-126) *)

\* Series.sum(): 0 for an empty column
ColumnSum(frame, col) == SumSeq(Column(frame.rows, col))

\* variant of AvgOrderValue: the total divided by the base dataset's size
AvgOrderValue_OverBase(frame) ==
    IF Len(frame.rows) # 0 THEN RoundDiv(SumSeq([i \in DOMAIN frame.rows |-> frame.rows[i].Sales]), num_orders) ELSE 0

\* line 71: Sales.mean() if total_orders else 0, held in cents
AvgOrderValue(frame) ==
    IF Len(frame.rows) # 0 THEN RoundDiv(ColumnSum(frame, "Sales"), Len(frame.rows)) ELSE 0

\* the order groupby sorts its keys in: labels alphabetically, months by date
Alphabetical == <<"Clothing", "East", "Electronics", "Furniture", "North",
                  "South", "Sports", "West">>
KeyRank(col, k) ==
    IF col = "Month" THEN k ELSE CHOOSE i \in DOMAIN Alphabetical : Alphabetical[i] = k

RECURSIVE SortedKeys(_, _)
SortedKeys(col, S) ==
    IF S = {} THEN <<>>
    ELSE LET m == CHOOSE x \in S : \A y \in S : KeyRank(col, x) <= KeyRank(col, y)
         IN  <<m>> \o SortedKeys(col, S \ {m})

SumWhere(rows, col, key) ==
    SumSeq([i \in DOMAIN rows |-> IF rows[i][col] = key THEN rows[i].Sales ELSE 0])

\* variant of GroupBySum: .first() in place of .sum()
GroupBySum_First(frame, col) ==
    LET keys == SortedKeys(col, { frame.rows[i][col] : i \in DOMAIN frame.rows })
    IN  [i \in DOMAIN keys |->
            [Key |-> keys[i],
             Sales |-> frame.rows[CHOOSE j \in DOMAIN frame.rows :
                                    /\ frame.rows[j][col] = keys[i]
                                    /\ \A k \in 1..(j - 1) : frame.rows[k][col] # keys[i]].Sales]]

\* frame.groupby(col)["Sales"].sum().reset_index(): one row per key that
\* occurs, in sorted key order
GroupBySum(frame, col) ==
    LET keys == SortedKeys(col, Unique(frame, col))
    IN  [i \in DOMAIN keys |-> [Key |-> keys[i], Sales |-> SumWhere(frame.rows, col, keys[i])]]

\* variant of IdxMax: the last row holding the maximum
IdxMax_LastTie(groups) ==
    LET i == CHOOSE j \in DOMAIN groups :
                /\ \A k \in DOMAIN groups : groups[k].Sales <= groups[j].Sales
                /\ \A k \in (j + 1)..Len(groups) : groups[k].Sales < groups[j].Sales
    IN  groups[i].Key

\* Series.idxmax(): the label of the first row holding the maximum
IdxMax(groups) ==
    LET i == CHOOSE j \in DOMAIN groups :
                /\ \A k \in DOMAIN groups : groups[k].Sales <= groups[j].Sales
                /\ \A k \in 1..(j - 1) : groups[k].Sales < groups[j].Sales
    IN  groups[i].Key

\* variant of AssignMonth: the filtered frame is a view, so the write goes
\* through to the frame it was taken from
AssignMonth_ThroughView(view, base) ==
    [view |-> [columns |-> view.columns \o <<"Month">>,
               rows |-> [i \in DOMAIN view.rows |->
                            view.rows[i] @@ [Month |-> MonthStart(view.rows[i].Date)]]],
     base |-> [columns |-> base.columns \o <<"Month">>, rows |-> base.rows]]

\* line 95: filtered_df["Month"] = ... on a frame obtained by boolean
\* indexing: the column is written to that frame, which shares nothing
\* with the frame it was taken from
AssignMonth(view, base) ==
    [view |-> [columns |-> view.columns \o <<"Month">>,
               rows |-> [i \in DOMAIN view.rows |->
                            view.rows[i] @@ [Month |-> MonthStart(view.rows[i].Date)]]],
     base |-> base]

----------------------------------------------------------------------------
(* CSV export (line 113), and the reading back of the exported text *)

MoneyColumns == {"UnitPrice", "Sales", "Profit", "ProfitMargin"}
DateColumns == {"Date", "Month"}

\* the text of one cell: a float as its integer and fractional digits, a
\* timestamp as its ISO date, an integer or a label as itself
FormatCell(col, v) ==
    IF col \in MoneyColumns THEN <<v \div 100, v % 100>>
    ELSE IF col \in DateColumns THEN FormatDate(v)
    ELSE v

ParseCell(col, text) ==
    IF col \in MoneyColumns THEN 100 * text[1] + text[2]
    ELSE IF col \in DateColumns THEN ParseDate(text)
    ELSE text

\* DataFrame.to_csv(index=False): the header line, then one line per row
ToCsv(frame) ==
    <<frame.columns>> \o
    [i \in DOMAIN frame.rows |->
        [j \in DOMAIN frame.columns |-> FormatCell(frame.columns[j], frame.rows[i][frame.columns[j]])]]

\* the exported text read back (pd.read_csv with the dates parsed): what a
\* consumer of the download does; the script itself never reads it
ReadCsv(text) ==
    LET header == text[1]
    IN  [columns |-> header,
         rows |-> [i \in 1..(Len(text) - 1) |->
                    [c \in { header[j] : j \in DOMAIN header } |->
                        LET j == CHOOSE k \in DOMAIN header : header[k] = c
                        IN  ParseCell(c, text[i + 1][j])]]]

----------------------------------------------------------------------------
(* The script run *)

NoMatchMessage == "No orders match the selected filters."

\* the names the script binds below line 45, before a run has bound them
Unbound ==
    /\ selected_regions = {} /\ selected_categories = {} /\ date_range = <<>>
    /\ filtered_df = NoFrame
    /\ total_sales = 0 /\ total_profit = 0 /\ total_orders = 0 /\ avg_order_value = 0
    /\ region_sales = <<>> /\ category_sales = <<>> /\ monthly_sales = <<>>
    /\ csv_data = <<>> /\ insights = <<>>

Unbind ==
    /\ selected_regions' = {} /\ selected_categories' = {} /\ date_range' = <<>>
    /\ filtered_df' = NoFrame
    /\ total_sales' = 0 /\ total_profit' = 0 /\ total_orders' = 0 /\ avg_order_value' = 0
    /\ region_sales' = <<>> /\ category_sales' = <<>> /\ monthly_sales' = <<>>
    /\ csv_data' = <<>> /\ insights' = <<>>

\* A Python process starts: the str hash salt is drawn once per process.
\* seed and df are assigned at the top of every run; until then they hold
\* what the previous run (of this or of an earlier process) assigned.
Init ==
    /\ pc = "start"
    /\ str_hash \in HashValues
    /\ seed = -1
    /\ df = NoFrame
    /\ fresh = TRUE
    /\ Unbound

\* lines 18-45: seed the random source, build df and its derived columns
Generate ==
    /\ pc = "start"
    /\ seed' = SeedOf(str_hash)
    /\ df' = GenerateData(seed')
    /\ fresh' = FALSE
    /\ pc' = "widgets"
    /\ UNCHANGED <<str_hash, selected_regions, selected_categories, date_range,
                   filtered_df, total_sales, total_profit, total_orders,
                   avg_order_value, region_sales, category_sales, monthly_sales,
                   csv_data, insights>>

\* lines 51-56: the current values of the three sidebar widgets
ReadWidgets ==
    /\ pc = "widgets"
    /\ selected_regions' \in SUBSET Unique(df, "Region")
    /\ selected_categories' \in SUBSET Unique(df, "Category")
    /\ date_range' \in DateInputValues(df)
    /\ pc' = "filter"
    /\ UNCHANGED <<str_hash, seed, df, fresh, filtered_df, total_sales, total_profit,
                   total_orders, avg_order_value, region_sales, category_sales,
                   monthly_sales, csv_data, insights>>

\* lines 59-63: date_range[1] raises IndexError on a one-date tuple, which
\* ends the run; otherwise the mask is built and df is indexed with it
ApplyFilters ==
    /\ pc = "filter"
    /\ IF Len(date_range) < 2
       THEN /\ pc' = "error"
            /\ UNCHANGED filtered_df
       ELSE /\ filtered_df' = BooleanIndex(df, FilterMask(df, selected_regions,
                                  selected_categories, date_range[1], date_range[2]))
            /\ pc' = "metrics"
    /\ UNCHANGED <<str_hash, seed, df, fresh, selected_regions, selected_categories,
                   date_range, total_sales, total_profit, total_orders,
                   avg_order_value, region_sales, category_sales, monthly_sales,
                   csv_data, insights>>

\* lines 68-71
KeyMetrics ==
    /\ pc = "metrics"
    /\ total_sales' = ColumnSum(filtered_df, "Sales")
    /\ total_profit' = ColumnSum(filtered_df, "Profit")
    /\ total_orders' = Len(filtered_df.rows)
    /\ avg_order_value' = AvgOrderValue(filtered_df)
    /\ pc' = "charts"
    /\ UNCHANGED <<str_hash, seed, df, fresh, selected_regions, selected_categories,
                   date_range, filtered_df, region_sales, category_sales,
                   monthly_sales, csv_data, insights>>

\* lines 85-96: the three group-bys; line 95 writes the Month column
Visualizations ==
    /\ pc = "charts"
    /\ region_sales' = GroupBySum(filtered_df, "Region")
    /\ category_sales' = GroupBySum(filtered_df, "Category")
    /\ filtered_df' = AssignMonth(filtered_df, df).view
    /\ df' = AssignMonth(filtered_df, df).base
    /\ monthly_sales' = GroupBySum(filtered_df', "Month")
    /\ pc' = "export"
    /\ UNCHANGED <<str_hash, seed, fresh, selected_regions, selected_categories,
                   date_range, total_sales, total_profit, total_orders,
                   avg_order_value, csv_data, insights>>

\* lines 111-114: the table is a sorted copy handed to the page; the CSV is
\* the text of filtered_df as it stands
Export ==
    /\ pc = "export"
    /\ csv_data' = ToCsv(filtered_df)
    /\ pc' = "insights"
    /\ UNCHANGED <<str_hash, seed, df, fresh, selected_regions, selected_categories,
                   date_range, filtered_df, total_sales, total_profit, total_orders,
                   avg_order_value, region_sales, category_sales, monthly_sales,
                   insights>>

\* lines 121-128: the lines written under "Quick Insights"
QuickInsights ==
    /\ pc = "insights"
    /\ insights' =
         IF total_orders > 0
         THEN <<[label |-> "Top Region", value |-> IdxMax(GroupBySum(filtered_df, "Region"))],
                [label |-> "Top Category", value |-> IdxMax(GroupBySum(filtered_df, "Category"))],
                [label |-> "Average Quantity per Order",
                 value |-> RoundDiv(100 * SumSeq(Column(filtered_df.rows, "Quantity")), Len(filtered_df.rows))]>>
         ELSE <<[label |-> NoMatchMessage, value |-> 0]>>
    /\ pc' = "done"
    /\ UNCHANGED <<str_hash, seed, df, fresh, selected_regions, selected_categories,
                   date_range, filtered_df, total_sales, total_profit, total_orders,
                   avg_order_value, region_sales, category_sales, monthly_sales,
                   csv_data>>

\* a widget changes: Streamlit runs the script again, from the top, in the
\* same process
Rerun ==
    /\ pc \in {"done", "error"}
    /\ pc' = "start"
    /\ Unbind
    /\ UNCHANGED <<str_hash, seed, df, fresh>>

\* the program is stopped and started again: a new process, a new hash salt
Restart ==
    /\ pc \in {"done", "error"}
    /\ pc' = "start"
    /\ str_hash' \in HashValues
    /\ fresh' = TRUE
    /\ Unbind
    /\ UNCHANGED <<seed, df>>

Next ==
    \/ Generate
    \/ ReadWidgets
    \/ ApplyFilters
    \/ KeyMetrics
    \/ Visualizations
    \/ Export
    \/ QuickInsights
    \/ Rerun
    \/ Restart

Spec == Init /\ [][Next]_vars

----------------------------------------------------------------------------
(* Properties *)

AfterFilter == pc \in {"metrics", "charts", "export", "insights", "done"}
AfterMetrics == pc \in {"charts", "export", "insights", "done"}
AfterCharts == pc \in {"export", "insights", "done"}

BaseColumnSet == { BaseColumns[j] : j \in DOMAIN BaseColumns }

\* a row restricted to the nine columns of the base dataset
BaseRow(r) == [c \in BaseColumnSet |-> r[c]]

\* the filter selection's predicate on a row, as the contract words it
Selected(r) ==
    /\ r.Region \in selected_regions
    /\ r.Category \in selected_categories
    /\ date_range[1] <= r.Date
    /\ r.Date <= date_range[2]

\* total Sales of the filtered rows whose column col holds key
FilteredSales(col, key) ==
    SumSeq([i \in DOMAIN filtered_df.rows |->
              IF filtered_df.rows[i][col] = key THEN filtered_df.rows[i].Sales ELSE 0])

\* C1: the filtered set is exactly the rows of the base dataset that satisfy
\* the selection (Region selected, Category selected, start <= Date <= end),
\* in the base dataset's order: the k-th selected row of the base dataset is
\* the k-th filtered row, and there are no other filtered rows.
C1_FilterExact ==
    AfterFilter =>
        LET hits == { j \in DOMAIN df.rows : Selected(df.rows[j]) }
            Rank(j) == Cardinality({ k \in hits : k <= j })
        IN  /\ Len(filtered_df.rows) = Cardinality(hits)
            /\ \A j \in hits : BaseRow(filtered_df.rows[Rank(j)]) = df.rows[j]

\* a run whose selection keeps some rows and drops others, with both ends of
\* the date interval being dates of kept orders
C1_Witness ==
    /\ pc = "metrics"
    /\ Len(filtered_df.rows) > 1
    /\ Len(filtered_df.rows) < Len(df.rows)
    /\ selected_regions # Unique(df, "Region")
    /\ selected_categories # Unique(df, "Category")
    /\ filtered_df.rows[1].Date = date_range[1]
    /\ filtered_df.rows[Len(filtered_df.rows)].Date = date_range[2]

\* C2: once a process has generated the base dataset, no step of any run or
\* rerun changes it: it keeps its 120 rows, its nine columns (no Month) and
\* its values, also across the write of the Month column and across the
\* regeneration at the top of every rerun.
C2_BaseUnchanged ==
    [][ ~fresh => /\ df' = df
                  /\ Len(df'.rows) = num_orders
                  /\ df'.columns = BaseColumns ]_vars

\* a run that wrote the Month column on a non-empty filtered view
C2_Witness ==
    /\ pc = "done"
    /\ ~fresh
    /\ Len(filtered_df.rows) > 0
    /\ \E j \in DOMAIN filtered_df.columns : filtered_df.columns[j] = "Month"
    /\ df.columns = BaseColumns

\* one grouping partitions the filtered rows: its keys are distinct, every
\* filtered row's key is one of them, and the group sums add up to the total
Partitions(groups, col) ==
    /\ \A i, k \in DOMAIN groups : groups[i].Key = groups[k].Key => i = k
    /\ \A i \in DOMAIN filtered_df.rows :
          \E k \in DOMAIN groups : groups[k].Key = filtered_df.rows[i][col]
    /\ \A k \in DOMAIN groups : groups[k].Sales = FilteredSales(col, groups[k].Key)
    /\ SumSeq(Column(groups, "Sales")) = total_sales

\* C3: the per-Region, per-Category and per-month group sums each add up to
\* total Sales of the filtered set, every filtered row being counted in
\* exactly one group of each grouping (the empty filtered set included).
C3_GroupSumsPartition ==
    AfterCharts =>
        /\ total_sales = SumSeq(Column(filtered_df.rows, "Sales"))
        /\ Partitions(region_sales, "Region")
        /\ Partitions(category_sales, "Category")
        /\ Partitions(monthly_sales, "Month")

\* a run with several groups in each grouping and a month of several orders
C3_Witness ==
    /\ pc = "done"
    /\ Len(region_sales) > 1
    /\ Len(category_sales) > 1
    /\ Len(monthly_sales) > 1
    /\ Len(monthly_sales) < Len(filtered_df.rows)

\* the selection can match no row: an empty Region or Category selection, a
\* reversed interval, or an interval holding no order's date
NothingSelectable ==
    /\ Len(date_range) = 2
    /\ \/ selected_regions = {}
       \/ selected_categories = {}
       \/ date_range[1] > date_range[2]
       \/ \A j \in DOMAIN df.rows :
             ~(date_range[1] <= df.rows[j].Date /\ df.rows[j].Date <= date_range[2])

\* C4: with an empty Region selection, an empty Category selection, start >
\* end or an interval without any order date, the run raises no error and
\* ends in the zero state: no rows, all four metrics 0, all groupings empty,
\* and the no-match message as the only insight.
C4_EmptySelectionZeroState ==
    (NothingSelectable /\ pc # "filter") =>
        /\ pc # "error"
        /\ filtered_df.rows = <<>>
        /\ AfterMetrics =>
              /\ total_sales = 0 /\ total_profit = 0
              /\ total_orders = 0 /\ avg_order_value = 0
        /\ AfterCharts =>
              /\ region_sales = <<>> /\ category_sales = <<>> /\ monthly_sales = <<>>
        /\ pc = "done" => insights = <<[label |-> NoMatchMessage, value |-> 0]>>

\* a finished run with an empty Region selection over the full date range
C4_Witness ==
    /\ pc = "done"
    /\ selected_regions = {}
    /\ selected_categories = Unique(df, "Category")
    /\ date_range = <<ColumnMin(df, "Date"), ColumnMax(df, "Date")>>
    /\ insights = <<[label |-> NoMatchMessage, value |-> 0]>>

\* C5: every generation seeds the random source with the same value as the
\* generation before it, in the same process or in an earlier one, and
\* builds the same records.
C5_SameSeedEveryRun ==
    [][ (pc = "start" /\ seed # -1) => (seed' = seed /\ df' = df) ]_vars

\* C6: the CSV has the header and one line per filtered order, and reading
\* it back gives the filtered dataset: the nine base columns and no other,
\* with the filtered rows' values in the filtered order.
C6_CsvRoundTrip ==
    pc \in {"insights", "done"} =>
        /\ Len(csv_data) = 1 + total_orders
        /\ csv_data[1] = BaseColumns
        /\ ReadCsv(csv_data).columns = BaseColumns
        /\ ReadCsv(csv_data).rows = [i \in DOMAIN filtered_df.rows |-> BaseRow(filtered_df.rows[i])]

\* the label key is the reported top of column col: it occurs in the filtered
\* set, no other label has a larger Sales sum, and among the labels with
\* the same sum it is the alphabetically first
IsTop(col, key) ==
    /\ \E i \in DOMAIN filtered_df.rows : filtered_df.rows[i][col] = key
    /\ \A other \in Unique(filtered_df, col) :
          /\ FilteredSales(col, other) <= FilteredSales(col, key)
          /\ FilteredSales(col, other) = FilteredSales(col, key)
                => KeyRank(col, key) <= KeyRank(col, other)

\* C7: with at least one filtered order the insights name a top Region and a
\* top Category that occur in the filtered set and whose Sales sum no other
\* label exceeds, the choice among equal sums being fixed by the filtered
\* set alone; with no filtered order they hold the no-match message only.
C7_TopInsights ==
    pc = "done" =>
        IF total_orders > 0
        THEN /\ Len(insights) = 3
             /\ insights[1].label = "Top Region" /\ IsTop("Region", insights[1].value)
             /\ insights[2].label = "Top Category" /\ IsTop("Category", insights[2].value)
        ELSE insights = <<[label |-> NoMatchMessage, value |-> 0]>>

\* a finished run in which two Regions tie for the largest Sales sum
C7_Witness ==
    /\ pc = "done"
    /\ total_orders > 0
    /\ \E other \in Unique(filtered_df, "Region") :
          /\ other # insights[1].value
          /\ FilteredSales("Region", other) = FilteredSales("Region", insights[1].value)

\* C8: the average order value is 0 for an empty filtered set, and otherwise
\* total Sales over the order count: times the count it gives total Sales up
\* to the rounding to a cent, and exactly when the count divides the total.
C8_AverageOrderValue ==
    AfterMetrics =>
        /\ total_orders = Len(filtered_df.rows)
        /\ total_orders = 0 => avg_order_value = 0
        /\ total_orders > 0 =>
              /\ 2 * Abs(avg_order_value * total_orders - total_sales) <= total_orders
              /\ total_sales % total_orders = 0
                    => avg_order_value * total_orders = total_sales

\* a run over several orders whose total is not a multiple of the count
C8_Witness ==
    /\ pc = "done"
    /\ total_orders > 1
    /\ total_orders < num_orders
    /\ total_sales % total_orders # 0

\* C9: every generation yields a dataset of 120 rows; row i (0-based) has
\* OrderID 3001 + i and Date 2024-01-01 + 7*i days; Region, Category,
\* Quantity and UnitPrice are in their ranges, so Sales > 0 on every row.
\* (Stated of the state right after generation; C2 carries it to the rest.)
C9_GeneratedRows ==
    pc = "widgets" =>
        /\ Len(df.rows) = 120
        /\ \A i \in DOMAIN df.rows :
              LET r == df.rows[i]
              IN  /\ r.OrderID = 3001 + (i - 1)
                  /\ r.Date = 7 * (i - 1)
                  /\ r.Region \in {"North", "South", "East", "West"}
                  /\ r.Category \in {"Electronics", "Furniture", "Clothing", "Sports"}
                  /\ r.Quantity \in 1..5
                  /\ r.UnitPrice >= 5000 /\ r.UnitPrice <= 100000
                  /\ r.Sales > 0
        /\ \A i \in 1..(Len(df.rows) - 1) :
              /\ df.rows[i].OrderID < df.rows[i + 1].OrderID
              /\ df.rows[i + 1].Date - df.rows[i].Date = 7

\* a freshly generated dataset in which every Region, Category and Quantity occurs
C9_Witness ==
    /\ pc = "widgets"
    /\ Len(df.rows) = num_orders
    /\ Unique(df, "Region") = {"North", "South", "East", "West"}
    /\ Unique(df, "Category") = {"Electronics", "Furniture", "Clothing", "Sports"}
    /\ Unique(df, "Quantity") = 1..5
    /\ FormatDate(df.rows[1].Date) = <<2024, 1, 1>>
    /\ FormatDate(df.rows[Len(df.rows)].Date) = <<2026, 4, 13>>

\* C10: no run ends with a raised error, whatever the widgets hand over.
C10_NoRunRaises == pc # "error"

====
